---------------------------- MODULE Spec2Model ----------------------------
(***************************************************************************)
(* Open-Access Paper Finder (src/app.py): the three source clients, the    *)
(* search execution block that fans a query out to them, the record        *)
(* deduplication, and the text helpers of the keyword analytics.           *)
(*                                                                         *)
(* Python strings that the code converts (lower, strip, regex scanning,    *)
(* concatenation) are sequences of one-character strings; a literal of the *)
(* program that is only ever concatenated is one element of its own.       *)
(***************************************************************************)
EXTENDS Integers, Sequences, FiniteSets, TLC

VARIABLES
    pc,          \* position of the run: in the execution block or inside a client
    query,       \* the Keywords text input
    sources,     \* the Sources multiselect
    max_results, \* the Max results slider
    sort_choice, \* the Sort by selectbox
    per_source,  \* per_source of the execution block
    all_rows,    \* all_rows of the execution block
    rows,        \* rows: the deduplicated list the page renders and exports
    cl,          \* the locals of the client call in progress
    net,         \* per external API: requests sent, and the last of request / sleep
    server,      \* what the external APIs hold for this query, and how they page
    fcall        \* the helper function being evaluated: its name, argument, result

vars == <<pc, query, sources, max_results, sort_choice, per_source, all_rows, rows,
          cl, net, server, fcall>>

\* Everything of a run of the page, for the specifications that evaluate one
\* helper function on its own.
NoRun ==
    /\ pc = "none" /\ query = <<>> /\ sources = {} /\ max_results = 0
    /\ sort_choice = "none" /\ per_source = 0 /\ all_rows = <<>> /\ rows = <<>>
    /\ cl = <<>> /\ net = <<>> /\ server = <<>>

RunVars == <<pc, query, sources, max_results, sort_choice, per_source, all_rows, rows,
             cl, net, server>>

---------------------------------------------------------------------------
(* Python values and string methods *)

\* Python's None, distinct from every character sequence.
None == <<"None">>

\* Truthiness of an optional string: None and "" are falsy.
Truthy(x) == x # None /\ x # <<>>

\* `x or ""`
OrEmpty(x) == IF Truthy(x) THEN x ELSE <<>>

UpperAlpha == <<"A","B","C","D","E","F","G","H","I","J","K","L","M",
                "N","O","P","Q","R","S","T","U","V","W","X","Y","Z">>

LowerAlpha == <<"a","b","c","d","e","f","g","h","i","j","k","l","m",
                "n","o","p","q","r","s","t","u","v","w","x","y","z">>

SeqRange(s) == {s[i] : i \in 1..Len(s)}

\* The lists of at most n elements of S.
SeqsUpTo(S, n) == UNION {[1..k -> S] : k \in 0..n}

IsUpper(c) == c \in SeqRange(UpperAlpha)

IsLetter(c) == c \in SeqRange(UpperAlpha) \cup SeqRange(LowerAlpha)

LowerChar(c) ==
    IF IsUpper(c)
    THEN LowerAlpha[CHOOSE i \in 1..Len(UpperAlpha) : UpperAlpha[i] = c]
    ELSE c

\* str.lower()
StrLower(s) == [i \in 1..Len(s) |-> LowerChar(s[i])]

Whitespace == {" ", "\t", "\n"}

\* str.strip(chars): drop the leading and the trailing characters in chars.
StripChars(s, chars) ==
    LET keep == {i \in 1..Len(s) : s[i] \notin chars}
    IN  IF keep = {} THEN <<>>
        ELSE LET lo == CHOOSE i \in keep : \A j \in keep : i <= j
                 hi == CHOOSE i \in keep : \A j \in keep : j <= i
             IN  SubSeq(s, lo, hi)

\* str.strip()
StrStrip(s) == StripChars(s, Whitespace)

---------------------------------------------------------------------------
(* dedupe_records *)

\* The three keys the scan compares, as the loop body computes them.
DoiKey(r) == StrStrip(StrLower(OrEmpty(r.doi)))

PdfKey(r) == StrStrip(OrEmpty(r.url_pdf))

LandKey(r) == StrStrip(OrEmpty(r.url_landing))

\* The scan state before the first row.
DedupeInit ==
    [seen_doi |-> {}, seen_pdf |-> {}, seen_landing |-> {}, out |-> <<>>, kept |-> <<>>]

\* A scan that inserts each kept row at the front of out.
DedupeStepPrepend(st, r, i) ==
    LET doi == DoiKey(r)
        pdf == PdfKey(r)
        land == LandKey(r)
    IN  IF doi # <<>> /\ doi \in st.seen_doi THEN st
        ELSE IF pdf # <<>> /\ pdf \in st.seen_pdf THEN st
        ELSE IF land # <<>> /\ land \in st.seen_landing THEN st
        ELSE [seen_doi |-> IF doi # <<>> THEN st.seen_doi \cup {doi} ELSE st.seen_doi,
              seen_pdf |-> IF pdf # <<>> THEN st.seen_pdf \cup {pdf} ELSE st.seen_pdf,
              seen_landing |-> IF land # <<>> THEN st.seen_landing \cup {land}
                               ELSE st.seen_landing,
              out |-> <<r>> \o st.out,
              kept |-> <<i>> \o st.kept]

\* A scan that records a row's keys before it decides to discard the row.
DedupeStepRecordFirst(st, r, i) ==
    LET doi == DoiKey(r)
        pdf == PdfKey(r)
        land == LandKey(r)
        seen == [st EXCEPT
                    !.seen_doi = IF doi # <<>> THEN @ \cup {doi} ELSE @,
                    !.seen_pdf = IF pdf # <<>> THEN @ \cup {pdf} ELSE @,
                    !.seen_landing = IF land # <<>> THEN @ \cup {land} ELSE @]
    IN  IF doi # <<>> /\ doi \in st.seen_doi THEN seen
        ELSE IF pdf # <<>> /\ pdf \in st.seen_pdf THEN seen
        ELSE IF land # <<>> /\ land \in st.seen_landing THEN seen
        ELSE [seen EXCEPT !.out = Append(st.out, r), !.kept = Append(st.kept, i)]

\* One iteration of the loop on row r, the i-th of the input; kept lists the
\* input positions of the rows appended to out.
DedupeStep(st, r, i) ==
    LET doi == DoiKey(r)
        pdf == PdfKey(r)
        land == LandKey(r)
    IN  IF doi # <<>> /\ doi \in st.seen_doi THEN st
        ELSE IF pdf # <<>> /\ pdf \in st.seen_pdf THEN st
        ELSE IF land # <<>> /\ land \in st.seen_landing THEN st
        ELSE [seen_doi |-> IF doi # <<>> THEN st.seen_doi \cup {doi} ELSE st.seen_doi,
              seen_pdf |-> IF pdf # <<>> THEN st.seen_pdf \cup {pdf} ELSE st.seen_pdf,
              seen_landing |-> IF land # <<>> THEN st.seen_landing \cup {land}
                               ELSE st.seen_landing,
              out |-> Append(st.out, r),
              kept |-> Append(st.kept, i)]

RECURSIVE DedupeScan(_, _, _, _)
\* The scan state after rows lo..hi, from state st before them. The range is
\* halved so that long row lists evaluate at a shallow depth; the rows are
\* still visited one by one, in order. The state after the first half is
\* evaluated (it has kept at most mid rows) before the second half is entered.
DedupeScan(st, rws, lo, hi) ==
    IF lo > hi THEN st
    ELSE IF lo = hi THEN DedupeStep(st, rws[lo], lo)
    ELSE LET mid == (lo + hi) \div 2
             left == DedupeScan(st, rws, lo, mid)
         IN  IF Len(left.kept) <= mid THEN DedupeScan(left, rws, mid + 1, hi) ELSE left

DedupeRecords(rws) == DedupeScan(DedupeInit, rws, 1, Len(rws)).out

\* Input positions of the rows dedupe_records returns.
DedupeKept(rws) == DedupeScan(DedupeInit, rws, 1, Len(rws)).kept

---------------------------------------------------------------------------
(* abstract_from_openalex *)

RECURSIVE MaxOfList(_, _)
\* max(m, max(positions)); positions may be empty.
MaxOfList(positions, m) ==
    IF positions = <<>> THEN m
    ELSE MaxOfList(Tail(positions), IF Head(positions) > m THEN Head(positions) ELSE m)

RECURSIVE MaxPosition(_, _)
\* The first loop: maxpos over the position lists of every entry, from 0.
MaxPosition(entries, maxpos) ==
    IF entries = <<>> THEN maxpos
    ELSE MaxPosition(Tail(entries), MaxOfList(Head(entries).positions, maxpos))

RECURSIVE PlaceToken(_, _, _)
\* The inner loop: out[p] = token for each listed p with 0 <= p < len(out);
\* slot p of the Python list is out[p + 1] here.
PlaceToken(out, token, positions) ==
    IF positions = <<>> THEN out
    ELSE LET p == Head(positions)
         IN  PlaceToken(IF 0 <= p /\ p < Len(out) THEN [out EXCEPT ![p + 1] = token]
                        ELSE out,
                        token, Tail(positions))

RECURSIVE PlaceAll(_, _)
\* The second loop, over the entries in dict order.
PlaceAll(out, entries) ==
    IF entries = <<>> THEN out
    ELSE PlaceAll(PlaceToken(out, Head(entries).token, Head(entries).positions),
                  Tail(entries))

RECURSIVE NonEmpty(_)
\* [t for t in out if t]
NonEmpty(out) ==
    IF out = <<>> THEN <<>>
    ELSE IF Head(out) # <<>> THEN <<Head(out)>> \o NonEmpty(Tail(out))
    ELSE NonEmpty(Tail(out))

RECURSIVE Join(_, _)
\* sep.join(words)
Join(words, sep) ==
    IF words = <<>> THEN <<>>
    ELSE IF Len(words) = 1 THEN Head(words)
    ELSE Head(words) \o sep \o Join(Tail(words), sep)

\* A slot list one short: [""] * maxpos.
SlotsOneShort(maxpos) == [i \in 1..maxpos |-> <<>>]

\* out = [""] * (maxpos + 1)
Slots(maxpos) == [i \in 1..(maxpos + 1) |-> <<>>]

\* An absent inverted index (None); a present one carries the dict's entries
\* (token, positions) in dict order.
NoIndex == [present |-> FALSE, entries |-> <<>>]

IndexOf(entries) == [present |-> TRUE, entries |-> entries]

AbstractFromOpenalex(inv_idx) ==
    IF ~inv_idx.present \/ inv_idx.entries = <<>> THEN <<>>
    ELSE LET entries == inv_idx.entries
         IN  Join(NonEmpty(PlaceAll(Slots(MaxPosition(entries, 0)), entries)), <<" ">>)

---------------------------------------------------------------------------
(* normalize_text *)

STOPWORDS == {
    <<"a">>, <<"a","b","o","u","t">>, <<"a","c","c","e","s","s">>,
    <<"a","c","c","o","r","d","i","n","g">>, <<"a","c","r","o","s","s">>,
    <<"a","f","t","e","r">>, <<"a","g","a","i","n","s","t">>,
    <<"a","m","o","n","g">>, <<"a","n">>, <<"a","n","d">>,
    <<"a","p","p","r","o","a","c","h">>, <<"a","r","e">>,
    <<"a","r","t","i","c","l","e">>, <<"a","s">>, <<"a","t">>,
    <<"a","v","a","i","l","a","b","l","e">>,
    <<"b","a","c","k","g","r","o","u","n","d">>, <<"b","a","s","e","d">>,
    <<"b","e">>, <<"b","e","e","n">>, <<"b","e","f","o","r","e">>,
    <<"b","e","i","n","g">>, <<"b","e","t","w","e","e","n">>, <<"b","u","t">>,
    <<"b","y">>, <<"c","o","d","e">>, <<"c","o","n","c","l","u","s","i","o","n">>,
    <<"c","o","n","c","l","u","s","i","o","n","s">>, <<"d","a","t","a">>,
    <<"d","i","s","c","u","s","s","i","o","n">>,
    <<"d","i","s","c","u","s","s","i","o","n","s">>, <<"d","u","r","i","n","g">>,
    <<"e","a","c","h">>, <<"f","i","g","u","r","e">>,
    <<"f","i","g","u","r","e","s">>, <<"f","o","r">>, <<"f","r","o","m">>,
    <<"f","u","r","t","h","e","r">>, <<"h","a","d">>, <<"h","a","s">>,
    <<"h","a","v","e">>, <<"h","e">>, <<"h","o","w","e","v","e","r">>, <<"i">>,
    <<"i","n">>, <<"i","n","t","o">>, <<"i","s">>, <<"i","t">>, <<"i","t","s">>,
    <<"l","e","a","s","t">>, <<"l","e","s","s">>, <<"l","i","n","k">>,
    <<"l","i","n","k","s">>, <<"m","a","n","y">>,
    <<"m","a","t","e","r","i","a","l","s">>, <<"m","e","t","h","o","d">>,
    <<"m","e","t","h","o","d","s">>, <<"m","o","d","e","l">>,
    <<"m","o","d","e","l","s">>, <<"m","o","r","e">>, <<"m","o","s","t">>,
    <<"m","u","c","h">>, <<"n","e","w">>, <<"o","b","j","e","c","t","i","v","e">>,
    <<"o","b","j","e","c","t","i","v","e","s">>, <<"o","f">>, <<"o","n">>,
    <<"o","n","l","i","n","e">>, <<"o","p","e","n">>, <<"o","r">>,
    <<"o","t","h","e","r">>, <<"o","u","r">>, <<"o","v","e","r">>,
    <<"o","v","e","r","a","l","l">>, <<"p","a","p","e","r">>,
    <<"p","r","e","p","r","i","n","t">>, <<"r","e","s","u","l","t">>,
    <<"r","e","s","u","l","t","s">>, <<"r","e","v","i","e","w">>, <<"s">>,
    <<"s","h","e">>, <<"s","t","u","d","y">>, <<"s","u","c","h">>,
    <<"s","u","p","p","l","e","m","e","n","t","a","r","y">>,
    <<"s","u","p","p","l","e","m","e","n","t","a","r","y","m","a","t","e","r","i","a","l">>,
    <<"t","a","b","l","e">>, <<"t","a","b","l","e","s">>, <<"t","h","a","n">>,
    <<"t","h","a","t">>, <<"t","h","e">>, <<"t","h","e","i","r">>,
    <<"t","h","e","m">>, <<"t","h","e","n">>, <<"t","h","e","r","e">>,
    <<"t","h","e","r","e","f","o","r","e">>, <<"t","h","e","s","e">>,
    <<"t","h","e","y">>, <<"t","h","i","s">>, <<"t","h","o","s","e">>, <<"t","o">>,
    <<"t","o","w","a","r","d">>, <<"t","o","w","a","r","d","s">>,
    <<"u","n","d","e","r">>, <<"u","s">>, <<"u","s","e","d">>,
    <<"u","s","i","n","g">>, <<"v","i","a">>, <<"w","a","s">>, <<"w","e">>,
    <<"w","e","r","e">>, <<"w","h","e","r","e","a","s">>, <<"w","h","i","l","e">>,
    <<"w","i","t","h">>, <<"w","i","t","h","i","n">>,
    <<"w","i","t","h","o","u","t">>, <<"y","o","u">>, <<"y","o","u","r">>}

\* A character of the class [A-Za-z\-].
IsTokenChar(c) == IsLetter(c) \/ c = "-"

RECURSIVE RunEnd(_, _)
\* The last index of the longest run of [A-Za-z\-] that follows index i.
RunEnd(text, i) ==
    IF i < Len(text) /\ IsTokenChar(text[i + 1]) THEN RunEnd(text, i + 1) ELSE i

RECURSIVE FindAllFrom(_, _)
\* TOKEN_RE.findall(text) from index i: the leftmost non-overlapping greedy
\* matches of [A-Za-z][A-Za-z\-]{2,}.
FindAllFrom(text, i) ==
    IF i > Len(text) THEN <<>>
    ELSE IF IsLetter(text[i]) /\ RunEnd(text, i) - i >= 2
         THEN <<SubSeq(text, i, RunEnd(text, i))>> \o FindAllFrom(text, RunEnd(text, i) + 1)
    ELSE FindAllFrom(text, i + 1)

\* The characters w.strip("-'") removes.
StripSet == {"-", "'"}

RECURSIVE FilterStopwords(_)
\* [w for w in words if w and w not in STOPWORDS]
FilterStopwords(words) ==
    IF words = <<>> THEN <<>>
    ELSE IF Head(words) # <<>> /\ Head(words) \notin STOPWORDS
         THEN <<Head(words)>> \o FilterStopwords(Tail(words))
    ELSE FilterStopwords(Tail(words))

\* text is None or a string.
NormalizeText(text) ==
    LET found == FindAllFrom(OrEmpty(text), 1)
        lowered == [k \in 1..Len(found) |-> StrLower(found[k])]
        stripped == [k \in 1..Len(lowered) |-> StripChars(lowered[k], StripSet)]
    IN  FilterStopwords(stripped)

---------------------------------------------------------------------------
(* extract_keywords *)

\* The characters a token can hold, by ascending code point.
CodeOrder == <<"'", "-">> \o UpperAlpha \o LowerAlpha

\* ord(c), up to the order-preserving renumbering of CodeOrder.
Ord(c) == CHOOSE i \in 1..Len(CodeOrder) : CodeOrder[i] = c

RECURSIVE StrLess(_, _)
\* a < b on str: the first differing character decides, a proper prefix is
\* smaller.
StrLess(a, b) ==
    IF b = <<>> THEN FALSE
    ELSE IF a = <<>> THEN TRUE
    ELSE IF Head(a) # Head(b) THEN Ord(Head(a)) < Ord(Head(b))
    ELSE StrLess(Tail(a), Tail(b))

RECURSIVE InsertSorted(_, _)
InsertSorted(sorted, w) ==
    IF sorted = <<>> THEN <<w>>
    ELSE IF StrLess(w, Head(sorted)) THEN <<w>> \o sorted
    ELSE <<Head(sorted)>> \o InsertSorted(Tail(sorted), w)

RECURSIVE Sorted(_)
\* sorted(words)
Sorted(words) ==
    IF words = <<>> THEN <<>>
    ELSE InsertSorted(Sorted(SubSeq(words, 1, Len(words) - 1)), words[Len(words)])

\* A Counter: its keys in insertion order and the count of each key.
EmptyCounter == [keys |-> <<>>, count |-> <<>>]

\* Counter.update with one more token.
CounterAdd(freq, w) ==
    IF w \in SeqRange(freq.keys)
    THEN [freq EXCEPT !.count = [x \in DOMAIN freq.count |->
                                    IF x = w THEN freq.count[x] + 1 ELSE freq.count[x]]]
    ELSE [keys |-> Append(freq.keys, w),
          count |-> [x \in DOMAIN freq.count \cup {w} |->
                        IF x = w THEN 1 ELSE freq.count[x]]]

RECURSIVE Counter(_)
\* Counter(tokens)
Counter(tokens) ==
    IF tokens = <<>> THEN EmptyCounter
    ELSE CounterAdd(Counter(SubSeq(tokens, 1, Len(tokens) - 1)), tokens[Len(tokens)])

\* The tokens one row adds: its title's, then its abstract's.
RowTokens(r, include_abstracts) ==
    NormalizeText(OrEmpty(r.title))
        \o (IF include_abstracts /\ Truthy(r.abstract)
            THEN NormalizeText(r.abstract) ELSE <<>>)

RECURSIVE AllTokens(_, _)
\* for r in rows: tokens.extend(...)
AllTokens(rws, include_abstracts) ==
    IF rws = <<>> THEN <<>>
    ELSE AllTokens(SubSeq(rws, 1, Len(rws) - 1), include_abstracts)
             \o RowTokens(rws[Len(rws)], include_abstracts)

\* Every long word counts as uncommon, whatever its frequency.
IsUncommonAnyCount(w, c) == Len(w) >= 6

\* c == 1 and len(w) >= 6
IsUncommon(w, c) == c = 1 /\ Len(w) >= 6

RECURSIVE UncommonOf(_, _)
\* [w for w, c in freq.items() if c == 1 and len(w) >= 6], from the k-th key on
UncommonOf(freq, k) ==
    IF k > Len(freq.keys) THEN <<>>
    ELSE (IF IsUncommon(freq.keys[k], freq.count[freq.keys[k]])
          THEN <<freq.keys[k]>> ELSE <<>>) \o UncommonOf(freq, k + 1)

ExtractKeywords(rws, include_abstracts) ==
    LET freq == Counter(AllTokens(rws, include_abstracts))
    IN  [freq |-> freq.count, uncommon |-> Sorted(UncommonOf(freq, 1))]

---------------------------------------------------------------------------
(* Raw payload items and their normalisation into records *)

\* Python's `a or b`.
PyOr(a, b) == IF Truthy(a) THEN a ELSE b

Digits == <<"0", "1", "2", "3", "4", "5", "6", "7", "8", "9">>

RECURSIVE ItoA(_)
\* str(n) for a natural number n.
ItoA(n) == IF n < 10 THEN <<Digits[n + 1]>> ELSE ItoA(n \div 10) \o <<Digits[(n % 10) + 1]>>

\* The unified record; authors, year and venue are not modelled. abstract and
\* pmid are None when the dict has no "_abstract" or "_pmid" key.
Record(title, doi, pdf, landing, source, abstract, pmid) ==
    [title |-> title, doi |-> doi, url_pdf |-> pdf, url_landing |-> landing,
     source |-> source, abstract |-> abstract, pmid |-> pmid]

DoiPrefix == "https://doi.org/"

RECURSIVE RemoveAll(_, _)
\* s.replace(lit, ""), lit a literal that is one element of s.
RemoveAll(s, lit) ==
    IF s = <<>> THEN <<>>
    ELSE IF Head(s) = lit THEN RemoveAll(Tail(s), lit)
    ELSE <<Head(s)>> \o RemoveAll(Tail(s), lit)

\* The record search_openalex appends for work w. The nested objects
\* best_oa_location, primary_location and primary_location.source are
\* flattened: a field of an absent object is None.
OpenAlexRecord(w) ==
    Record(w.title,
           RemoveAll(OrEmpty(w.doi), DoiPrefix),
           PyOr(w.best_pdf_url, w.best_url),
           PyOr(w.landing_page_url,
                PyOr(w.primary_pdf_url,
                     PyOr(w.host_venue_url, PyOr(w.source_url, PyOr(w.doi, w.id))))),
           "OpenAlex",
           AbstractFromOpenalex(w.abstract_inverted_index),
           None)

RECURSIVE FirstPdfLink(_)
\* The href of the first link whose type is application/pdf or whose title is
\* pdf; None when there is none.
FirstPdfLink(links) ==
    IF links = <<>> THEN None
    ELSE IF Head(links).type = "application/pdf" \/ Head(links).title = "pdf"
         THEN Head(links).href
    ELSE FirstPdfLink(Tail(links))

\* title.replace("\n", " ")
NewlinesToSpaces(s) == [i \in 1..Len(s) |-> IF s[i] = "\n" THEN " " ELSE s[i]]

\* The record search_arxiv appends for feed entry e.
ArxivRecord(e) ==
    Record(NewlinesToSpaces(StrStrip(OrEmpty(e.title))),
           OrEmpty(e.arxiv_doi),
           FirstPdfLink(e.links),
           e.link,
           "arXiv",
           StrStrip(OrEmpty(e.summary)),
           None)

RECURSIVE ScanArticleIds(_, _)
\* The loop over item["articleids"]: the last pmcid value and the last doi value.
ScanArticleIds(aids, acc) ==
    IF aids = <<>> THEN acc
    ELSE LET aid == Head(aids)
             a1 == IF aid.idtype = "pmcid" THEN [acc EXCEPT !.pmcid = aid.value] ELSE acc
             a2 == IF aid.idtype = "doi" THEN [a1 EXCEPT !.doi = aid.value] ELSE a1
         IN  ScanArticleIds(Tail(aids), a2)

PmcPrefix == "https://www.ncbi.nlm.nih.gov/pmc/articles/"

\* pdf_url = f".../pmc/articles/{pmcid}/pdf" if pmcid else None
PubmedPdfUrl(pmcid) ==
    IF Truthy(pmcid) THEN <<PmcPrefix>> \o pmcid \o <<"/pdf">> ELSE None

\* A summary loop that appends a record whether or not a PDF link was built.
PubmedRecordsKeepAll(pmid, item) ==
    IF ~item.present THEN <<>>
    ELSE LET ids == ScanArticleIds(item.articleids, [pmcid |-> None, doi |-> <<>>])
             pdf_url == PubmedPdfUrl(ids.pmcid)
         IN  <<Record(item.title, ids.doi, pdf_url,
                      <<"https://pubmed.ncbi.nlm.nih.gov/">> \o pmid \o <<"/">>,
                      "PubMed", None, pmid)>>

\* The records (none or one) the summary loop appends for pmid, whose entry in
\* the summary result is item (item.present is FALSE when res has no entry).
PubmedRecords(pmid, item) ==
    IF ~item.present THEN <<>>
    ELSE LET ids == ScanArticleIds(item.articleids, [pmcid |-> None, doi |-> <<>>])
             pdf_url == PubmedPdfUrl(ids.pmcid)
         IN  IF ~Truthy(pdf_url) THEN <<>>
             ELSE <<Record(item.title, ids.doi, pdf_url,
                           <<"https://pubmed.ncbi.nlm.nih.gov/">> \o pmid \o <<"/">>,
                           "PubMed", None, pmid)>>

---------------------------------------------------------------------------
(* The external APIs *)

Apis == {"openalex", "arxiv", "ncbi"}

Min(a, b) == IF a < b THEN a ELSE b

\* The items a server returns for a page of up to count items after the first
\* offset items of its result list: as many as asked for and left when it pages
\* "full", any number of them from none when it pages "any".
PageSizes(api, offset, count) ==
    LET left == IF Len(server.corpus[api]) > offset
                THEN Len(server.corpus[api]) - offset ELSE 0
        full == Min(count, left)
    IN  IF server.pages = "full" THEN {full} ELSE 0..full

PageItems(api, offset, n) == SubSeq(server.corpus[api], offset + 1, offset + n)

\* requests.get(...) to api; the log keeps the count and that a request was last.
Requested(api) ==
    [net EXCEPT ![api] = [requests |-> @.requests + 1, last |-> "request"]]

\* time.sleep(...) after a request to api.
Slept(api) == [net EXCEPT ![api].last = "sleep"]

NoTraffic == [a \in Apis |-> [requests |-> 0, last |-> "none"]]

\* The OpenAlex pagination cursor: "*", a server token for an offset, or null.
StarCursor == [kind |-> "*", pos |-> 0]

NoCursor == [kind |-> "null", pos |-> 0]

TokenCursor(offset) == [kind |-> "token", pos |-> offset]

---------------------------------------------------------------------------
(* search_openalex *)

PerPageOpenAlex == 50

\* The locals of search_openalex on entry. works_len is len(works) of the last
\* page, page_size its requested size; both 0 before the first page.
EnterOpenAlex(cap, sort) ==
    [fn |-> "search_openalex", max_results |-> cap, sort |-> sort, results |-> <<>>,
     retrieved |-> 0, cursor |-> StarCursor, page_size |-> 0, works_len |-> 0]

\* One pass of the while body up to the sleep: the GET, raise_for_status, and
\* the page's works turned into records.
OAPage ==
    /\ pc = "oa_loop"
    /\ cl.retrieved < cl.max_results
    /\ LET remaining == cl.max_results - cl.retrieved
           page_size == IF remaining > PerPageOpenAlex THEN PerPageOpenAlex ELSE remaining
       IN  /\ net' = Requested("openalex")
           /\ \/ \* resp.raise_for_status() raises
                 /\ pc' = "raised"
                 /\ cl' = [cl EXCEPT !.page_size = page_size]
              \/ \E n \in PageSizes("openalex", cl.cursor.pos, page_size),
                    more \in BOOLEAN :
                    LET works == PageItems("openalex", cl.cursor.pos, n)
                        next_cursor == IF more THEN TokenCursor(cl.cursor.pos + n)
                                       ELSE NoCursor
                    IN  IF works = <<>>
                        THEN \* if not works: break
                             /\ pc' = "oa_return"
                             /\ cl' = [cl EXCEPT !.page_size = page_size, !.works_len = 0]
                        ELSE /\ cl' = [cl EXCEPT
                                          !.page_size = page_size,
                                          !.works_len = Len(works),
                                          !.results = @ \o [k \in 1..Len(works) |->
                                                               OpenAlexRecord(works[k])],
                                          !.retrieved = @ + Len(works),
                                          !.cursor = next_cursor]
                             /\ pc' = IF next_cursor = NoCursor THEN "oa_return"
                                      ELSE "oa_sleep"
    /\ UNCHANGED <<query, sources, max_results, sort_choice, per_source, all_rows, rows,
                   server, fcall>>

\* time.sleep(0.2) at the end of the while body.
OASleep ==
    /\ pc = "oa_sleep"
    /\ net' = Slept("openalex")
    /\ pc' = "oa_loop"
    /\ UNCHANGED <<query, sources, max_results, sort_choice, per_source, all_rows, rows,
                   cl, server, fcall>>

\* The while condition fails: retrieved >= max_results.
OAExit ==
    /\ pc = "oa_loop"
    /\ ~(cl.retrieved < cl.max_results)
    /\ pc' = "oa_return"
    /\ UNCHANGED <<query, sources, max_results, sort_choice, per_source, all_rows, rows,
                   cl, net, server, fcall>>

---------------------------------------------------------------------------
(* search_arxiv; the feedparser import is taken to succeed *)

PerPageArxiv == 50

\* The locals of search_arxiv before the loop. entries_len is len(entries) of
\* the last page and count its requested size; both 0 before the first page.
EnterArxiv(cap, sort) ==
    [fn |-> "search_arxiv", max_results |-> cap, sort |-> sort, results |-> <<>>,
     start_i |-> 0, count |-> 0, entries_len |-> 0]

\* A loop that sleeps and goes on after a short page too.
AfterArxivPageNoBreak(n, count) == "ax_sleep"

\* if len(entries) < count: break, else the sleep.
AfterArxivPage(n, count) == IF n < count THEN "ax_return" ELSE "ax_sleep"

\* One pass of the while body up to the sleep.
AXPage ==
    /\ pc = "ax_loop"
    /\ Len(cl.results) < cl.max_results
    /\ LET count == Min(PerPageArxiv, cl.max_results - Len(cl.results))
       IN  /\ net' = Requested("arxiv")
           /\ \/ \* resp.raise_for_status() raises
                 /\ pc' = "raised"
                 /\ cl' = [cl EXCEPT !.count = count]
              \/ \E n \in PageSizes("arxiv", cl.start_i, count) :
                    LET entries == PageItems("arxiv", cl.start_i, n)
                    IN  IF entries = <<>>
                        THEN \* if not entries: break
                             /\ pc' = "ax_return"
                             /\ cl' = [cl EXCEPT !.count = count, !.entries_len = 0]
                        ELSE /\ cl' = [cl EXCEPT
                                          !.count = count,
                                          !.entries_len = Len(entries),
                                          !.results = @ \o [k \in 1..Len(entries) |->
                                                               ArxivRecord(entries[k])],
                                          !.start_i = @ + Len(entries)]
                             /\ pc' = AfterArxivPage(Len(entries), count)
    /\ UNCHANGED <<query, sources, max_results, sort_choice, per_source, all_rows, rows,
                   server, fcall>>

\* time.sleep(0.2) at the end of the while body.
AXSleep ==
    /\ pc = "ax_sleep"
    /\ net' = Slept("arxiv")
    /\ pc' = "ax_loop"
    /\ UNCHANGED <<query, sources, max_results, sort_choice, per_source, all_rows, rows,
                   cl, server, fcall>>

\* The while condition fails: len(results) >= max_results.
AXExit ==
    /\ pc = "ax_loop"
    /\ ~(Len(cl.results) < cl.max_results)
    /\ pc' = "ax_return"
    /\ UNCHANGED <<query, sources, max_results, sort_choice, per_source, all_rows, rows,
                   cl, net, server, fcall>>

---------------------------------------------------------------------------
(* search_pubmed *)

PerPagePubmed == 100

SummaryBatch == 200

FetchBatch == 100

\* The PMID of the n-th item of the PubMed result list.
PmidAt(n) == ItoA(n)

\* The locals of search_pubmed before the search loop. idlist_len is
\* len(idlist) of the last page; i is the batch offset of the for loop running.
EnterPubmed(cap, sort) ==
    [fn |-> "search_pubmed", max_results |-> cap, sort |-> sort, results |-> <<>>,
     retstart |-> 0, collected_pmids |-> <<>>, count |-> 0, idlist_len |-> 0,
     i |-> 0, pmids_with_abs |-> <<>>]

\* Where the function goes once the search loop is left: `if not
\* collected_pmids: return results`, else the first ESummary batch.
AfterSearch(collected_pmids) ==
    IF collected_pmids = <<>> THEN "pm_return" ELSE "pm_summary"

\* One pass of the ESearch while body up to the sleep.
PMSearchPage ==
    /\ pc = "pm_search"
    /\ Len(cl.collected_pmids) < cl.max_results
    /\ LET count == Min(PerPagePubmed, cl.max_results - Len(cl.collected_pmids))
       IN  /\ net' = Requested("ncbi")
           /\ \/ \* es.raise_for_status() raises
                 /\ pc' = "raised"
                 /\ cl' = [cl EXCEPT !.count = count]
              \/ \E n \in PageSizes("ncbi", cl.retstart, count) :
                    LET idlist == [k \in 1..n |-> PmidAt(cl.retstart + k)]
                    IN  IF idlist = <<>>
                        THEN \* if not idlist: break
                             /\ pc' = AfterSearch(cl.collected_pmids)
                             /\ cl' = [cl EXCEPT !.count = count, !.idlist_len = 0]
                        ELSE /\ cl' = [cl EXCEPT
                                          !.count = count,
                                          !.idlist_len = Len(idlist),
                                          !.collected_pmids = @ \o idlist,
                                          !.retstart = @ + Len(idlist)]
                             /\ pc' = "pm_search_sleep"
    /\ UNCHANGED <<query, sources, max_results, sort_choice, per_source, all_rows, rows,
                   server, fcall>>

\* time.sleep(0.34) at the end of the ESearch while body.
PMSearchSleep ==
    /\ pc = "pm_search_sleep"
    /\ net' = Slept("ncbi")
    /\ pc' = "pm_search"
    /\ UNCHANGED <<query, sources, max_results, sort_choice, per_source, all_rows, rows,
                   cl, server, fcall>>

\* The while condition fails: len(collected_pmids) >= max_results.
PMSearchExit ==
    /\ pc = "pm_search"
    /\ ~(Len(cl.collected_pmids) < cl.max_results)
    /\ pc' = AfterSearch(cl.collected_pmids)
    /\ UNCHANGED <<query, sources, max_results, sort_choice, per_source, all_rows, rows,
                   cl, net, server, fcall>>

\* The entry of the summary result for pmid: the server's item for that PMID.
SummaryItem(pmid) ==
    LET ns == {n \in 1..Len(server.corpus["ncbi"]) : PmidAt(n) = pmid}
    IN  IF ns = {} THEN [present |-> FALSE, title |-> None, articleids |-> <<>>,
                         texts |-> <<>>]
        ELSE server.corpus["ncbi"][CHOOSE n \in ns : TRUE]

RECURSIVE SummaryRecordsOf(_, _, _)
\* The records the `for pmid in batch` loop appends for batch[lo..hi], in
\* order (the range is halved to keep the evaluation shallow).
SummaryRecordsOf(batch, lo, hi) ==
    IF lo > hi THEN <<>>
    ELSE IF lo = hi THEN PubmedRecords(batch[lo], SummaryItem(batch[lo]))
    ELSE LET mid == (lo + hi) \div 2
         IN  SummaryRecordsOf(batch, lo, mid) \o SummaryRecordsOf(batch, mid + 1, hi)

SummaryRecords(batch) == SummaryRecordsOf(batch, 1, Len(batch))

\* One pass of the ESummary for body up to the sleep.
PMSummary ==
    /\ pc = "pm_summary"
    /\ LET batch == SubSeq(cl.collected_pmids, cl.i + 1,
                           Min(cl.i + SummaryBatch, Len(cl.collected_pmids)))
       IN  /\ net' = Requested("ncbi")
           /\ \/ \* sm.raise_for_status() raises
                 /\ pc' = "raised"
                 /\ cl' = cl
              \/ /\ cl' = [cl EXCEPT !.results = @ \o SummaryRecords(batch)]
                 /\ pc' = "pm_summary_sleep"
    /\ UNCHANGED <<query, sources, max_results, sort_choice, per_source, all_rows, rows,
                   server, fcall>>

\* [r["_pmid"] for r in results if r.get("_pmid")]
PmidsOf(results) == [k \in 1..Len(results) |-> results[k].pmid]

\* time.sleep(0.34) at the end of the ESummary body, and the next batch or,
\* after the last one, pmids_with_abs and the first EFetch batch.
PMSummarySleep ==
    /\ pc = "pm_summary_sleep"
    /\ net' = Slept("ncbi")
    /\ IF cl.i + SummaryBatch < Len(cl.collected_pmids)
       THEN /\ cl' = [cl EXCEPT !.i = @ + SummaryBatch]
            /\ pc' = "pm_summary"
       ELSE /\ cl' = [cl EXCEPT !.i = 0, !.pmids_with_abs = PmidsOf(cl.results)]
            /\ pc' = IF cl.results = <<>> THEN "pm_return" ELSE "pm_fetch"
    /\ UNCHANGED <<query, sources, max_results, sort_choice, per_source, all_rows, rows,
                   server, fcall>>

\* The EFetch XML document is its <PubmedArticle> blocks in document order; a
\* block is the contents of its <PMID> elements and of its <AbstractText>
\* elements, each in document order.
ArticleBlock(pmid) == [pmids |-> <<pmid>>, texts |-> SummaryItem(pmid).texts]

\* The documents the server may answer an EFetch of batch with: paging "full",
\* one block per requested PMID in the order asked; paging "any", the blocks
\* of any of the requested PMIDs in any order.
FetchResponses(batch) ==
    IF server.pages = "full"
    THEN {[k \in 1..Len(batch) |-> ArticleBlock(batch[k])]}
    ELSE {[k \in 1..Len(q) |-> ArticleBlock(q[k])] :
            q \in {r \in SeqsUpTo(SeqRange(batch), Cardinality(SeqRange(batch))) :
                     \A a, b \in 1..Len(r) : a # b => r[a] # r[b]}}

\* Markup elements inside an abstract, each one element of the text.
MarkupTags == {"<i>", "</i>", "<sup>", "</sup>"}

\* re.sub(r"<[^>]+>", " ", text)
StripTags(text) == [k \in 1..Len(text) |-> IF text[k] \in MarkupTags THEN " " ELSE text[k]]

RECURSIVE TextsOf(_, _, _)
\* The <AbstractText> contents of blocks lo..hi of xml, in document order (the
\* range is halved to keep the evaluation shallow).
TextsOf(xml, lo, hi) ==
    IF lo > hi THEN <<>>
    ELSE IF lo = hi THEN xml[lo].texts
    ELSE LET mid == (lo + hi) \div 2
         IN  TextsOf(xml, lo, mid) \o TextsOf(xml, mid + 1, hi)

\* re.findall(<AbstractText[^>]*>([\s\S]*?)</AbstractText>) on a match of the
\* first n blocks.
ConcatTexts(xml, n) == TextsOf(xml, 1, n)

\* re.search(<PubmedArticle>[\s\S]*?<PMID[^>]*>{pmid}</PMID>[\s\S]*?</PubmedArticle>):
\* the leftmost match opens at the first <PubmedArticle> of the document,
\* runs lazily to the first <PMID> element holding pmid and on to the next
\* closing tag. The value is the number of blocks matched, 0 for no match.
BlockMatch(xml, pmid) ==
    LET ks == {k \in 1..Len(xml) : pmid \in SeqRange(xml[k].pmids)}
    IN  IF ks = {} THEN 0 ELSE CHOOSE k \in ks : \A j \in ks : k <= j

\* abs_texts[pmid] for a PMID with a block match.
CleanAbstract(xml, pmid) ==
    StripTags(Join(ConcatTexts(xml, BlockMatch(xml, pmid)), <<" ", "\n", " ">>))

\* The loop `for r in results` after one batch: abs_texts holds the PMIDs of
\* batch that had a block match.
AttachAbstracts(results, batch, xml) ==
    [k \in 1..Len(results) |->
        IF results[k].pmid \in SeqRange(batch) /\ BlockMatch(xml, results[k].pmid) > 0
        THEN [results[k] EXCEPT !.abstract = CleanAbstract(xml, results[k].pmid)]
        ELSE results[k]]

\* One pass of the EFetch for body up to the sleep.
PMFetch ==
    /\ pc = "pm_fetch"
    /\ LET batch == SubSeq(cl.pmids_with_abs, cl.i + 1,
                           Min(cl.i + FetchBatch, Len(cl.pmids_with_abs)))
       IN  /\ net' = Requested("ncbi")
           /\ \/ \* ef.raise_for_status() raises
                 /\ pc' = "raised"
                 /\ cl' = cl
              \/ \E xml \in FetchResponses(batch) :
                    /\ cl' = [cl EXCEPT !.results = AttachAbstracts(@, batch, xml)]
                    /\ pc' = "pm_fetch_sleep"
    /\ UNCHANGED <<query, sources, max_results, sort_choice, per_source, all_rows, rows,
                   server, fcall>>

\* time.sleep(0.34) at the end of the EFetch body, and the next batch or the
\* return.
PMFetchSleep ==
    /\ pc = "pm_fetch_sleep"
    /\ net' = Slept("ncbi")
    /\ cl' = [cl EXCEPT !.i = @ + FetchBatch]
    /\ pc' = IF cl.i + FetchBatch < Len(cl.pmids_with_abs) THEN "pm_fetch" ELSE "pm_return"
    /\ UNCHANGED <<query, sources, max_results, sort_choice, per_source, all_rows, rows,
                   server, fcall>>

\* The steps of the three clients.
ClientStep ==
    \/ OAPage \/ OASleep \/ OAExit
    \/ AXPage \/ AXSleep \/ AXExit
    \/ PMSearchPage \/ PMSearchSleep \/ PMSearchExit
    \/ PMSummary \/ PMSummarySleep \/ PMFetch \/ PMFetchSleep

---------------------------------------------------------------------------
(* The search execution block *)

SourceNames == {"OpenAlex", "arXiv", "PubMed"}

\* sort_map: the client a sort choice targets and the sort value it is given.
SortMap ==
    [c \in {"Best match (OpenAlex)", "Newest (OpenAlex)", "Most cited (OpenAlex)",
            "Best match (arXiv)", "Newest updated (arXiv)", "Newest submitted (arXiv)",
            "Best match (PubMed)", "Most recent (PubMed)"} |->
        CASE c = "Best match (OpenAlex)" -> [which |-> "openalex", sort |-> "relevance_score:desc"]
          [] c = "Newest (OpenAlex)" -> [which |-> "openalex", sort |-> "publication_year:desc"]
          [] c = "Most cited (OpenAlex)" -> [which |-> "openalex", sort |-> "cited_by_count:desc"]
          [] c = "Best match (arXiv)" -> [which |-> "arxiv", sort |-> "relevance:desc"]
          [] c = "Newest updated (arXiv)" -> [which |-> "arxiv", sort |-> "lastUpdatedDate:desc"]
          [] c = "Newest submitted (arXiv)" -> [which |-> "arxiv", sort |-> "submittedDate:desc"]
          [] c = "Best match (PubMed)" -> [which |-> "pubmed", sort |-> "relevance"]
          [] c = "Most recent (PubMed)" -> [which |-> "pubmed", sort |-> "pub+date"]]

\* The floor of the per-source quota.
QuotaFloor == 10

Max(a, b) == IF a > b THEN a ELSE b

\* per_source = max(10, max_results // max(1, len(sources)))
PerSource(cap, srcs) == Max(QuotaFloor, cap \div Max(1, Cardinality(srcs)))

\* The cap a client is called with: per_source if which != name else max_results.
Quota(name) ==
    IF SortMap[sort_choice].which # name THEN per_source ELSE max_results

\* The sort a client is called with: the chosen one if it is the target, else
\* the client's default.
SortFor(name, default) ==
    IF SortMap[sort_choice].which = name THEN SortMap[sort_choice].sort ELSE default

\* A guard that tests the raw text.
BlankQueryNoStrip(q) == q = <<>>

\* not query.strip()
BlankQuery(q) == StrStrip(q) = <<>>

NoCall == [fn |-> "none"]

\* Search pressed with blank keywords: st.warning and st.stop().
RunBlank ==
    /\ pc = "run"
    /\ BlankQuery(query)
    /\ pc' = "stopped"
    /\ UNCHANGED <<query, sources, max_results, sort_choice, per_source, all_rows, rows,
                   cl, net, server, fcall>>

\* Search pressed with keywords: all_rows = [], which and per_source are set.
RunSearch ==
    /\ pc = "run"
    /\ ~BlankQuery(query)
    /\ per_source' = PerSource(max_results, sources)
    /\ all_rows' = <<>>
    /\ pc' = "call_openalex"
    /\ UNCHANGED <<query, sources, max_results, sort_choice, rows, cl, net, server, fcall>>

\* if "OpenAlex" in sources: search_openalex(...) is entered, else passed over.
CallOpenAlex ==
    /\ pc = "call_openalex"
    /\ IF "OpenAlex" \in sources
       THEN /\ cl' = EnterOpenAlex(Quota("openalex"), SortFor("openalex", "relevance_score:desc"))
            /\ pc' = "oa_loop"
       ELSE /\ cl' = cl
            /\ pc' = "call_arxiv"
    /\ UNCHANGED <<query, sources, max_results, sort_choice, per_source, all_rows, rows,
                   net, server, fcall>>

\* all_rows.extend(oa_rows)
ExtendOpenAlex ==
    /\ pc = "oa_return"
    /\ all_rows' = all_rows \o cl.results
    /\ cl' = NoCall
    /\ pc' = "call_arxiv"
    /\ UNCHANGED <<query, sources, max_results, sort_choice, per_source, rows, net,
                   server, fcall>>

\* if "arXiv" in sources: search_arxiv(...) is entered, else passed over.
CallArxiv ==
    /\ pc = "call_arxiv"
    /\ IF "arXiv" \in sources
       THEN /\ cl' = EnterArxiv(Quota("arxiv"), SortFor("arxiv", "relevance:desc"))
            /\ pc' = "ax_loop"
       ELSE /\ cl' = cl
            /\ pc' = "call_pubmed"
    /\ UNCHANGED <<query, sources, max_results, sort_choice, per_source, all_rows, rows,
                   net, server, fcall>>

\* all_rows.extend(ax_rows)
ExtendArxiv ==
    /\ pc = "ax_return"
    /\ all_rows' = all_rows \o cl.results
    /\ cl' = NoCall
    /\ pc' = "call_pubmed"
    /\ UNCHANGED <<query, sources, max_results, sort_choice, per_source, rows, net,
                   server, fcall>>

\* if "PubMed" in sources: search_pubmed(...) is entered, else passed over.
CallPubmed ==
    /\ pc = "call_pubmed"
    /\ IF "PubMed" \in sources
       THEN /\ cl' = EnterPubmed(Quota("pubmed"), SortFor("pubmed", "relevance"))
            /\ pc' = "pm_search"
       ELSE /\ cl' = cl
            /\ pc' = "dedupe"
    /\ UNCHANGED <<query, sources, max_results, sort_choice, per_source, all_rows, rows,
                   net, server, fcall>>

\* all_rows.extend(pm_rows)
ExtendPubmed ==
    /\ pc = "pm_return"
    /\ all_rows' = all_rows \o cl.results
    /\ cl' = NoCall
    /\ pc' = "dedupe"
    /\ UNCHANGED <<query, sources, max_results, sort_choice, per_source, rows, net,
                   server, fcall>>

\* rows = dedupe_records(all_rows)
Dedupe ==
    /\ pc = "dedupe"
    /\ rows' = DedupeRecords(all_rows)
    /\ pc' = "done"
    /\ UNCHANGED <<query, sources, max_results, sort_choice, per_source, all_rows, cl,
                   net, server, fcall>>

---------------------------------------------------------------------------
(* Runs of the page: Search pressed, against servers that page in full *)

\* No helper function is being evaluated on its own.
Idle == [fn |-> "none", input |-> <<>>, arg |-> <<>>, ret |-> <<>>, n |-> 0]

\* The two sizes, besides empty, of a server's result list for the query.
SmallCorpus == 4

LargeCorpus == 70

\* The n-th work of the OpenAlex result list. With shared the three servers
\* hold the same papers: the n-th item of each carries the same DOI.
GenWork(n, shared) ==
    [title |-> <<"W">> \o ItoA(n),
     doi |-> <<DoiPrefix, "10.">> \o (IF shared THEN <<"1">> ELSE <<"2">>) \o <<"/">> \o ItoA(n),
     id |-> <<"https://openalex.org/W">> \o ItoA(n),
     best_pdf_url |-> <<"https://oa.example/pdf/">> \o ItoA(n),
     best_url |-> None,
     landing_page_url |-> <<"https://oa.example/">> \o ItoA(n),
     primary_pdf_url |-> None, host_venue_url |-> None, source_url |-> None,
     abstract_inverted_index |-> NoIndex]

\* The n-th entry of the arXiv feed.
GenEntry(n, shared) ==
    [title |-> <<"E">> \o ItoA(n),
     link |-> <<"http://arxiv.org/abs/">> \o ItoA(n),
     links |-> <<[type |-> "text/html", title |-> "",
                  href |-> <<"http://arxiv.org/abs/">> \o ItoA(n)],
                 [type |-> "application/pdf", title |-> "pdf",
                  href |-> <<"http://arxiv.org/pdf/">> \o ItoA(n)]>>,
     arxiv_doi |-> IF shared THEN <<"10.", "1", "/">> \o ItoA(n) ELSE None,
     summary |-> <<" ", "S">> \o ItoA(n)]

\* The n-th item of the PubMed result list: every fourth has no PMC id, the
\* first two have an abstract.
GenPubmedItem(n, shared) ==
    [present |-> TRUE,
     title |-> <<"P">> \o ItoA(n),
     articleids |->
        (IF n % 4 = 0 THEN <<>>
         ELSE <<[idtype |-> "pmcid", value |-> <<"PMC">> \o ItoA(n)]>>)
        \o <<[idtype |-> "pubmed", value |-> ItoA(n)],
             [idtype |-> "doi",
              value |-> <<"10.", IF shared THEN "1" ELSE "3", "/">> \o ItoA(n)]>>,
     texts |-> IF n <= 2 THEN <<<<"A">> \o ItoA(n)>> ELSE <<>>]

GenServer(size, shared) ==
    [corpus |-> [a \in Apis |->
                    CASE a = "openalex" -> [n \in 1..size |-> GenWork(n, shared)]
                      [] a = "arxiv" -> [n \in 1..size |-> GenEntry(n, shared)]
                      [] a = "ncbi" -> [n \in 1..size |-> GenPubmedItem(n, shared)]],
     pages |-> "full"]

\* The slider positions (10 to 500 in steps of 10) the runs are drawn from.
SliderPicks == {10, 30, 60}

\* The keyword texts the runs are drawn from.
QueryPicks == {<<>>, <<" ">>, <<"\t", " ">>, <<" ", "q", " ">>}

Init ==
    /\ pc = "run"
    /\ query \in QueryPicks
    /\ sources \in SUBSET SourceNames
    /\ max_results \in SliderPicks
    /\ sort_choice \in DOMAIN SortMap
    /\ per_source = 0
    /\ all_rows = <<>>
    /\ rows = <<>>
    /\ cl = NoCall
    /\ net = NoTraffic
    /\ server \in {GenServer(size, shared) :
                     size \in {0, SmallCorpus, LargeCorpus}, shared \in BOOLEAN}
    /\ fcall = Idle

Next ==
    \/ RunBlank \/ RunSearch
    \/ CallOpenAlex \/ ExtendOpenAlex
    \/ CallArxiv \/ ExtendArxiv
    \/ CallPubmed \/ ExtendPubmed
    \/ Dedupe
    \/ ClientStep

Spec == Init /\ [][Next]_vars

---------------------------------------------------------------------------
(* One client called on its own, against a server that may page short *)

\* Largest result cap a client is called with.
MaxCap == 2

\* Longest result list a server holds.
MaxCorpus == 2

WorkKinds ==
    {[title |-> None, doi |-> None, id |-> <<"W", "1">>, best_pdf_url |-> None,
      best_url |-> None, landing_page_url |-> None, primary_pdf_url |-> None,
      host_venue_url |-> None, source_url |-> None,
      abstract_inverted_index |-> NoIndex],
     [title |-> <<"T">>, doi |-> <<DoiPrefix, "1", "0", ".", "x">>, id |-> <<"W", "2">>,
      best_pdf_url |-> <<"p">>, best_url |-> <<"u">>, landing_page_url |-> <<"l">>,
      primary_pdf_url |-> None, host_venue_url |-> None, source_url |-> None,
      abstract_inverted_index |->
          IndexOf(<<[token |-> <<"a">>, positions |-> <<1>>],
                    [token |-> <<"b">>, positions |-> <<0>>]>>)],
     [title |-> <<"T">>, doi |-> <<>>, id |-> <<"W", "3">>, best_pdf_url |-> <<>>,
      best_url |-> <<"u">>, landing_page_url |-> <<>>, primary_pdf_url |-> <<"q">>,
      host_venue_url |-> None, source_url |-> None,
      abstract_inverted_index |-> IndexOf(<<>>)]}

EntryKinds ==
    {[title |-> <<"T", "\n", "t", " ">>, link |-> <<"l">>, links |-> <<>>,
      arxiv_doi |-> None, summary |-> None],
     [title |-> <<"T">>, link |-> <<"l">>,
      links |-> <<[type |-> "text/html", title |-> "", href |-> <<"l">>],
                  [type |-> "application/pdf", title |-> "", href |-> <<"p">>]>>,
      arxiv_doi |-> <<"1", "0", ".", "x">>, summary |-> <<" ", "s", " ">>],
     [title |-> None, link |-> None,
      links |-> <<[type |-> "", title |-> "pdf", href |-> <<"q">>]>>,
      arxiv_doi |-> <<>>, summary |-> <<>>]}

\* Summary entries: absent from the result; without article ids; with a DOI
\* only; with a PMC id and a DOI; with a PMC id whose value is empty.
PubmedKinds ==
    {[present |-> FALSE, title |-> None, articleids |-> <<>>, texts |-> <<>>],
     [present |-> TRUE, title |-> <<"T">>, articleids |-> <<>>, texts |-> <<<<"n">>>>],
     [present |-> TRUE, title |-> <<"T">>,
      articleids |-> <<[idtype |-> "doi", value |-> <<"1", "0", ".", "x">>]>>,
      texts |-> <<>>],
     [present |-> TRUE, title |-> <<"T">>,
      articleids |-> <<[idtype |-> "pmcid", value |-> <<"PMC", "7">>],
                       [idtype |-> "doi", value |-> <<"1", "0", ".", "y">>]>>,
      texts |-> <<<<"a", "<i>", "b", "</i>">>>>],
     [present |-> TRUE, title |-> None,
      articleids |-> <<[idtype |-> "pmcid", value |-> <<>>]>>,
      texts |-> <<>>]}

\* The n-th item of a PubMed result list of the given kind: each text of its
\* abstract ends in the item's own PMID.
PubmedItemAt(kind, n) ==
    [kind EXCEPT !.texts = [k \in 1..Len(kind.texts) |-> kind.texts[k] \o PmidAt(n)]]

ClientServer(api, corpus) ==
    [corpus |-> [a \in Apis |-> IF a = api THEN corpus ELSE <<>>], pages |-> "any"]

InitClient ==
    /\ query = <<"q">> /\ sources = {} /\ max_results = 0 /\ sort_choice = "none"
    /\ per_source = 0 /\ all_rows = <<>> /\ rows = <<>>
    /\ net = NoTraffic
    /\ fcall = Idle
    /\ \E cap \in 1..MaxCap :
          \/ /\ pc = "oa_loop"
             /\ cl = EnterOpenAlex(cap, "relevance_score:desc")
             /\ \E corpus \in SeqsUpTo(WorkKinds, MaxCorpus) :
                   server = ClientServer("openalex", corpus)
          \/ /\ pc = "ax_loop"
             /\ cl = EnterArxiv(cap, "relevance:desc")
             /\ \E corpus \in SeqsUpTo(EntryKinds, MaxCorpus) :
                   server = ClientServer("arxiv", corpus)
          \/ /\ pc = "pm_search"
             /\ cl = EnterPubmed(cap, "relevance")
             /\ \E kinds \in SeqsUpTo(PubmedKinds, MaxCorpus) :
                   server = ClientServer("ncbi", [n \in 1..Len(kinds) |->
                                                     PubmedItemAt(kinds[n], n)])
          \* a cap of more than one arXiv page, against a feed that long
          \/ /\ cap = 1
             /\ pc = "ax_loop"
             /\ cl = EnterArxiv(PerPageArxiv + 1, "relevance:desc")
             /\ server = ClientServer("arxiv", [n \in 1..LargeCorpus |-> GenEntry(n, FALSE)])

NextClient == ClientStep

SpecClient == InitClient /\ [][NextClient]_vars

\* The client runs on one thread and every step of it completes.
SpecClientFair == SpecClient /\ WF_vars(NextClient)

---------------------------------------------------------------------------
(* Evaluating dedupe_records on bounded inputs *)

\* Longest row list handed to dedupe_records.
MaxRows == 3

RowDois == {<<>>, <<"x">>, <<"X", " ">>}

RowPdfs == {None, <<"p">>}

RowLandings == {<<>>, <<"l">>}

RowSet == [doi : RowDois, url_pdf : RowPdfs, url_landing : RowLandings]

InitDedupe ==
    /\ NoRun
    /\ \E rws \in SeqsUpTo(RowSet, MaxRows) :
           fcall = [fn |-> "dedupe_records", input |-> rws, arg |-> rws,
                    ret |-> <<>>, n |-> 0]

\* rows = dedupe_records(all_rows)
DedupeCall ==
    /\ fcall.fn = "dedupe_records"
    /\ fcall.n = 0
    /\ fcall' = [fcall EXCEPT !.ret = DedupeRecords(fcall.arg), !.n = 1]
    /\ UNCHANGED RunVars

\* The pass run again on its own output.
DedupeAgain ==
    /\ fcall.fn = "dedupe_records"
    /\ fcall.n = 1
    /\ fcall' = [fcall EXCEPT !.arg = fcall.ret, !.ret = DedupeRecords(fcall.ret),
                              !.n = 2]
    /\ UNCHANGED RunVars

NextDedupe == DedupeCall \/ DedupeAgain

SpecDedupe == InitDedupe /\ [][NextDedupe]_vars

\* Two rows collide when a non-empty key of one equals the same key of the other.
Collide(a, b) ==
    \/ DoiKey(a) # <<>> /\ DoiKey(a) = DoiKey(b)
    \/ PdfKey(a) # <<>> /\ PdfKey(a) = PdfKey(b)
    \/ LandKey(a) # <<>> /\ LandKey(a) = LandKey(b)

\* C4: dedupe_records is idempotent: the pass run on its own output returns
\* that output unchanged, same records in the same order.
C4_DedupeIdempotent ==
    (fcall.fn = "dedupe_records" /\ fcall.n = 2) => fcall.ret = fcall.arg

\* The second pass ran on an output of two or more rows from which the first
\* pass had removed a row.
C4_Witness ==
    /\ fcall.fn = "dedupe_records" /\ fcall.n = 2
    /\ Len(fcall.arg) >= 2
    /\ Len(fcall.arg) < Len(fcall.input)

\* C5: first-seen-wins over three independent key spaces: a row is discarded
\* exactly when a non-empty key of it equals the same key of a row kept
\* earlier in the scan; the output is the kept rows in input order. Hence of
\* two rows sharing one key the earlier survives, empty keys discard nothing,
\* and a discarded row's keys are not recorded.
C5_FirstSeenWins ==
    (fcall.fn = "dedupe_records" /\ fcall.n = 1) =>
        LET rws == fcall.input
            kept == DedupeKept(rws)
            K == SeqRange(kept)
        IN  /\ \A i \in 1..Len(rws) :
                 (i \notin K) <=> (\E j \in K : j < i /\ Collide(rws[j], rws[i]))
            /\ Len(fcall.ret) = Len(kept)
            /\ \A k \in 1..Len(kept) : fcall.ret[k] = rws[kept[k]]
            /\ \A k \in 1..Len(kept) - 1 : kept[k] < kept[k + 1]
            /\ (Len(rws) = 2 /\ Collide(rws[1], rws[2])) => fcall.ret = <<rws[1]>>

\* Row 2 is discarded for its DOI alone (written in another case), and row 3,
\* which shares only a landing URL with the discarded row 2, is kept.
C5_Witness ==
    /\ fcall.fn = "dedupe_records" /\ fcall.n = 1
    /\ Len(fcall.input) = 3
    /\ LET rws == fcall.input
       IN  /\ rws[1].doi # rws[2].doi
           /\ DoiKey(rws[1]) = DoiKey(rws[2]) /\ DoiKey(rws[1]) # <<>>
           /\ LandKey(rws[1]) = <<>> /\ PdfKey(rws[1]) = <<>>
           /\ LandKey(rws[2]) # <<>> /\ LandKey(rws[2]) = LandKey(rws[3])
           /\ DoiKey(rws[3]) = <<>>
           /\ fcall.ret = <<rws[1], rws[3]>>

---------------------------------------------------------------------------
(* Evaluating abstract_from_openalex on bounded inputs *)

\* Largest word position in an inverted index.
MaxPos == 2

\* Longest position list of one token.
MaxPositions == 2

TokThe == <<"t", "h", "e">>

TokCat == <<"c", "a", "t">>

IndexTokens == {TokThe, TokCat}

IndexEntries == [token : IndexTokens, positions : SeqsUpTo(-1..MaxPos, MaxPositions)]

\* A dict has each key once; its entries are in insertion order.
InvertedIndexes ==
    {idx \in SeqsUpTo(IndexEntries, Cardinality(IndexTokens)) :
        \A i, j \in 1..Len(idx) : i # j => idx[i].token # idx[j].token}

InitAbstract ==
    /\ NoRun
    /\ \E idx \in {IndexOf(e) : e \in InvertedIndexes} \cup {NoIndex} :
           fcall = [fn |-> "abstract_from_openalex", input |-> idx, arg |-> idx,
                    ret |-> <<>>, n |-> 0]

\* "_abstract": abstract_from_openalex(w.get("abstract_inverted_index"))
AbstractCall ==
    /\ fcall.fn = "abstract_from_openalex"
    /\ fcall.n = 0
    /\ fcall' = [fcall EXCEPT !.ret = AbstractFromOpenalex(fcall.arg), !.n = 1]
    /\ UNCHANGED RunVars

NextAbstract == AbstractCall

SpecAbstract == InitAbstract /\ [][NextAbstract]_vars

\* The zero-based positions some token of idx lists.
C9_Listed(idx) ==
    {p \in 0..MaxPos + 1 : \E k \in 1..Len(idx) : p \in SeqRange(idx[k].positions)}

\* The token at position p: that of the last entry, in dict order, listing p.
C9_TokenAt(idx, p) ==
    LET ks == {k \in 1..Len(idx) : p \in SeqRange(idx[k].positions)}
    IN  idx[CHOOSE k \in ks : \A j \in ks : j <= k].token

RECURSIVE C9_Text(_, _)
\* The tokens at the positions P, ascending, separated by single spaces.
C9_Text(idx, P) ==
    IF P = {} THEN <<>>
    ELSE LET p == CHOOSE q \in P : \A r \in P : q <= r
         IN  C9_TokenAt(idx, p)
             \o (IF P = {p} THEN <<>> ELSE <<" ">> \o C9_Text(idx, P \ {p}))

C9_ExampleIndex ==
    <<[token |-> TokThe, positions |-> <<0, 2>>], [token |-> TokCat, positions |-> <<1>>]>>

C9_ExampleText == <<"t", "h", "e", " ", "c", "a", "t", " ", "t", "h", "e">>

\* C9: abstract_from_openalex places each token at each of its listed
\* zero-based positions and joins the filled slots in position order with
\* single spaces; {"the":[0,2], "cat":[1]} gives exactly "the cat the", and an
\* empty or absent index gives the empty string.
C9_Reconstruction ==
    (fcall.fn = "abstract_from_openalex" /\ fcall.n = 1) =>
        /\ (~fcall.arg.present \/ fcall.arg.entries = <<>>) => fcall.ret = <<>>
        /\ fcall.arg.present =>
             fcall.ret = C9_Text(fcall.arg.entries, C9_Listed(fcall.arg.entries))
        /\ fcall.arg = IndexOf(C9_ExampleIndex) => fcall.ret = C9_ExampleText

\* The example of the claim has been reconstructed.
C9_Witness ==
    /\ fcall.fn = "abstract_from_openalex" /\ fcall.n = 1
    /\ fcall.arg = IndexOf(C9_ExampleIndex)
    /\ fcall.ret = C9_ExampleText

---------------------------------------------------------------------------
(* Evaluating normalize_text on bounded inputs *)

\* Longest generated text.
MaxText == 4

TextChars == {"a", "s", "H", "-", "'", " "}

\* "LSTM-based Anomaly-Detection results."
ExampleTitle == <<
    "L", "S", "T", "M", "-", "b", "a", "s", "e", "d", " ", "A", "n", "o", "m", "a",
    "l", "y", "-", "D", "e", "t", "e", "c", "t", "i", "o", "n", " ", "r", "e", "s",
    "u", "l", "t", "s", ".">>

ExampleTexts == {ExampleTitle, <<"a", "i">>, <<"A", "I", "-", "-">>}

InitNormalize ==
    /\ NoRun
    /\ \E text \in SeqsUpTo(TextChars, MaxText) \cup ExampleTexts \cup {None} :
           fcall = [fn |-> "normalize_text", input |-> text, arg |-> text,
                    ret |-> <<>>, n |-> 0]

\* tokens.extend(normalize_text(title))
NormalizeCall ==
    /\ fcall.fn = "normalize_text"
    /\ fcall.n = 0
    /\ fcall' = [fcall EXCEPT !.ret = NormalizeText(fcall.arg), !.n = 1]
    /\ UNCHANGED RunVars

NextNormalize == NormalizeCall

SpecNormalize == InitNormalize /\ [][NextNormalize]_vars

C10_ExampleTokens ==
    <<<<"l", "s", "t", "m", "-", "b", "a", "s", "e", "d">>,
      <<"a", "n", "o", "m", "a", "l", "y", "-", "d", "e", "t", "e", "c", "t", "i", "o", "n">>>>

\* C10: every token normalize_text returns is lowercase, at least 3 long,
\* without a leading or trailing hyphen or apostrophe, and no stopword; the
\* example title gives exactly [lstm-based, anomaly-detection] and "ai" gives
\* no token.
C10_TokenShape ==
    (fcall.fn = "normalize_text" /\ fcall.n = 1) =>
        /\ \A k \in 1..Len(fcall.ret) :
             LET w == fcall.ret[k]
             IN  /\ \A i \in 1..Len(w) : ~IsUpper(w[i])
                 /\ Len(w) >= 3
                 /\ w[1] \notin StripSet /\ w[Len(w)] \notin StripSet
                 /\ w \notin STOPWORDS
        /\ fcall.arg = ExampleTitle => fcall.ret = C10_ExampleTokens
        /\ fcall.arg = <<"a", "i">> => fcall.ret = <<>>

---------------------------------------------------------------------------
(* extract_keywords on its own *)

\* Longest record list passed to extract_keywords.
MaxKeywordRows == 2

\* None, "alpha alpha betabeta", "Zeta-beta zetas", "betabeta"
KeywordTitles ==
    {None,
     <<"a", "l", "p", "h", "a", " ", "a", "l", "p", "h", "a", " ", "b", "e", "t", "a", "b", "e", "t", "a">>,
     <<"Z", "e", "t", "a", "-", "b", "e", "t", "a", " ", "z", "e", "t", "a", "s">>,
     <<"b", "e", "t", "a", "b", "e", "t", "a">>}

\* None, "", "The betabeta zetabet"
KeywordAbstracts ==
    {None, <<>>,
     <<"T", "h", "e", " ", "b", "e", "t", "a", "b", "e", "t", "a", " ", "z", "e", "t", "a", "b", "e", "t">>}

KeywordRows ==
    {Record(title, <<>>, None, None, "OpenAlex", abstract, None) :
        title \in KeywordTitles, abstract \in KeywordAbstracts}

InitKeywords ==
    /\ NoRun
    /\ \E rws \in SeqsUpTo(KeywordRows, MaxKeywordRows), include_abstracts \in BOOLEAN :
           fcall = [fn |-> "extract_keywords",
                    input |-> [rows |-> rws, include_abstracts |-> include_abstracts],
                    arg |-> [rows |-> rws, include_abstracts |-> include_abstracts],
                    ret |-> [freq |-> <<>>, uncommon |-> <<>>], n |-> 0]

\* freq, uncommon = extract_keywords(rows, include_abstracts=include_abs)
KeywordsCall ==
    /\ fcall.fn = "extract_keywords"
    /\ fcall.n = 0
    /\ fcall' = [fcall EXCEPT !.ret = ExtractKeywords(fcall.arg.rows,
                                                      fcall.arg.include_abstracts),
                              !.n = 1]
    /\ UNCHANGED RunVars

NextKeywords == KeywordsCall

SpecKeywords == InitKeywords /\ [][NextKeywords]_vars

\* The texts of the call that count: every title, and the non-empty abstracts
\* when abstracts are included; as <<row, part>>, part 1 the title, 2 the abstract.
C11_Texts ==
    {<<k, 1>> : k \in 1..Len(fcall.arg.rows)}
        \cup {<<k, 2>> : k \in {j \in 1..Len(fcall.arg.rows) :
                                   /\ fcall.arg.include_abstracts
                                   /\ Truthy(fcall.arg.rows[j].abstract)}}

C11_TokensOf(x) ==
    NormalizeText(IF x[2] = 1 THEN OrEmpty(fcall.arg.rows[x[1]].title)
                  ELSE fcall.arg.rows[x[1]].abstract)

\* Every text that counts, paired with its token list.
C11_Tokens == {<<x, C11_TokensOf(x)>> : x \in C11_Texts}

\* The occurrences of word w: a text with its tokens, and a position in them.
C11_Occurrences(toks, w) ==
    {o \in UNION {{p} \X (1..Len(p[2])) : p \in toks} : o[1][2][o[2]] = w}

C11_Words(toks) == UNION {SeqRange(p[2]) : p \in toks}

\* a precedes b in lexicographic order by code point.
C11_Before(a, b) ==
    \E i \in 1..Len(b) :
        /\ i <= Len(a) + 1
        /\ \A j \in 1..(i - 1) : a[j] = b[j]
        /\ i = Len(a) + 1 \/ Ord(a[i]) < Ord(b[i])

\* C11: extract_keywords returns the frequency map that counts every token of
\* all titles, and of the abstracts only when include_abstracts is true and
\* the record has one, and an uncommon list that is exactly the words of
\* frequency 1 and length >= 6 in ascending lexicographic order; the tokens
\* [alpha, alpha, betabeta] give uncommon = [betabeta].
C11_KeywordCounts ==
    (fcall.fn = "extract_keywords" /\ fcall.n = 1) =>
        LET freq == fcall.ret.freq
            uncommon == fcall.ret.uncommon
            toks == C11_Tokens
            words == C11_Words(toks)
            times == [w \in words |-> Cardinality(C11_Occurrences(toks, w))]
        IN  /\ DOMAIN freq = words
            /\ \A w \in words : freq[w] = times[w]
            /\ SeqRange(uncommon) = {w \in words : times[w] = 1 /\ Len(w) >= 6}
            /\ \A i \in 1..Len(uncommon) : \A j \in 1..Len(uncommon) :
                   i < j => C11_Before(uncommon[i], uncommon[j])
            /\ (Len(fcall.arg.rows) = 1 /\ fcall.arg.rows[1].title = <<"a", "l", "p", "h", "a", " ", "a", "l", "p", "h", "a", " ", "b", "e", "t", "a", "b", "e", "t", "a">>
                 /\ ~Truthy(fcall.arg.rows[1].abstract)) => uncommon = <<<<"b", "e", "t", "a", "b", "e", "t", "a">>>>

\* A call with abstracts included in which an abstract added tokens, a long
\* word occurs twice, and two uncommon words differ first in a hyphen.
C11_Witness ==
    /\ fcall.fn = "extract_keywords" /\ fcall.n = 1
    /\ fcall.arg.include_abstracts
    /\ \E x \in C11_Texts : x[2] = 2 /\ C11_TokensOf(x) # <<>>
    /\ \E w \in DOMAIN fcall.ret.freq : fcall.ret.freq[w] = 2 /\ Len(w) >= 6
    /\ fcall.ret.uncommon = <<<<"z", "e", "t", "a", "-", "b", "e", "t", "a">>, <<"z", "e", "t", "a", "b", "e", "t">>>>

---------------------------------------------------------------------------
(* Claims about a run of the page *)

\* The query text is empty or holds whitespace only.
C3_Blank == \A i \in 1..Len(query) : query[i] \in Whitespace

\* C3: a search whose query text is empty or only whitespace stops with the
\* warning before any client is invoked: no HTTP request is sent to any of the
\* three APIs, whatever the sources, the cap and the sort.
C3_BlankQueryNoRequests ==
    C3_Blank =>
        /\ pc \in {"run", "stopped"}
        /\ \A a \in Apis : net[a].requests = 0

\* A whitespace-only query, with every source enabled, has been stopped.
C3_Witness ==
    /\ pc = "stopped"
    /\ query # <<>>
    /\ sources = SourceNames
    /\ \A a \in Apis : net[a].requests = 0

\* C1: for every cap, non-empty set of enabled sources and sort choice, each
\* client is called with max(10, max_results // number of sources), or with
\* max_results if it is the sort target, and the deduplicated list holds at
\* most max_results records in total.
C1_AtMostMaxResults ==
    sources # {} =>
        /\ cl.fn # "none" =>
             LET name == CASE cl.fn = "search_openalex" -> "openalex"
                           [] cl.fn = "search_arxiv" -> "arxiv"
                           [] cl.fn = "search_pubmed" -> "pubmed"
                 split == max_results \div Cardinality(sources)
             IN  cl.max_results = IF SortMap[sort_choice].which = name THEN max_results
                                  ELSE IF split > 10 THEN split ELSE 10
        /\ pc = "done" => Len(rows) <= max_results

\* C2: a request of one enabled source failing with an HTTP error does not
\* abort the query: the run goes on past the failed client to the other
\* sources and to the deduplicated result.
C2_FailureSkipsSource == pc = "raised" => ENABLED Next

\* C7: within a client call, a sleep lies between any two consecutive requests
\* to the same external API, also after a page that came back empty.
C7_SleepBetweenRequests ==
    [][\A a \in Apis :
          (net'[a].requests = net[a].requests + 1 /\ net[a].requests > 0)
              => net[a].last = "sleep"]_vars

---------------------------------------------------------------------------
(* Claims about one client call *)

\* C6: every record search_pubmed holds has a non-empty url_pdf built from the
\* value of a pmcid entry of that PMID's summary item; so an item without a
\* pmcid entry, or absent from the summary result, gives no record.
C6_PubmedRecordsHavePdf ==
    cl.fn = "search_pubmed" =>
        \A k \in 1..Len(cl.results) :
            LET r == cl.results[k]
                item == SummaryItem(r.pmid)
            IN  /\ Truthy(r.url_pdf)
                /\ item.present
                /\ \E j \in 1..Len(item.articleids) :
                      /\ item.articleids[j].idtype = "pmcid"
                      /\ Truthy(item.articleids[j].value)
                      /\ r.url_pdf = <<PmcPrefix>> \o item.articleids[j].value \o <<"/pdf">>

\* search_pubmed returns after a summary in which one collected PMID gave a
\* record and another, lacking a PMC id, gave none.
C6_Witness ==
    /\ pc = "pm_return"
    /\ cl.fn = "search_pubmed"
    /\ Len(cl.results) = 1
    /\ Len(cl.collected_pmids) = 2
    /\ \E n \in 1..Len(cl.collected_pmids) :
          /\ SummaryItem(cl.collected_pmids[n]).present
          /\ \A j \in 1..Len(SummaryItem(cl.collected_pmids[n]).articleids) :
                SummaryItem(cl.collected_pmids[n]).articleids[j].idtype # "pmcid"

\* A page request of the running client is sent in this step.
C8_PageRequest(loop, api) == pc = loop /\ net'[api].requests = net[api].requests + 1

\* The client call has ended: it returned or raised.
C8_Ended == pc \in {"oa_return", "ax_return", "pm_return", "raised"}

\* C8: a client sends a page request only while it has collected fewer items
\* than its cap and, after the first page, only if the previous page was
\* non-empty (arXiv: and as long as requested; OpenAlex: and came with a next
\* cursor); and the page loop ends for every sequence of server responses.
C8_PageLoopStops ==
    /\ [][/\ C8_PageRequest("oa_loop", "openalex") =>
               /\ cl.retrieved < cl.max_results
               /\ net["openalex"].requests > 0 =>
                     (cl.works_len > 0 /\ cl.cursor.kind = "token")
          /\ C8_PageRequest("ax_loop", "arxiv") =>
               /\ Len(cl.results) < cl.max_results
               /\ net["arxiv"].requests > 0 =>
                     (cl.entries_len > 0 /\ cl.entries_len = cl.count)
          /\ C8_PageRequest("pm_search", "ncbi") =>
               /\ Len(cl.collected_pmids) < cl.max_results
               /\ net["ncbi"].requests > 0 => cl.idlist_len > 0]_vars
    /\ <>C8_Ended

\* search_arxiv has returned after a second page request, the first page
\* having been full.
C8_Witness ==
    /\ pc = "ax_return"
    /\ net["arxiv"].requests = 2
    /\ Len(cl.results) = cl.max_results

\* The abstract text of the article block of pmid alone, markup stripped.
C12_OwnAbstract(pmid) == StripTags(Join(SummaryItem(pmid).texts, <<" ", "\n", " ">>))

\* C12: the abstract search_pubmed attaches to a record holds only the
\* abstract text of the article block whose PMID is the record's, whatever
\* the blocks of the EFetch response and their order; a record without a
\* matching block keeps no abstract.
C12_AbstractOfOwnBlock ==
    cl.fn = "search_pubmed" =>
        \A k \in 1..Len(cl.results) :
            \/ cl.results[k].abstract = None
            \/ cl.results[k].abstract = C12_OwnAbstract(cl.results[k].pmid)

===========================================================================
